---- MODULE Spec2Model ----
(***************************************************************************)
(* Ledger posting of the finance module: the petty-cash, staff-loan and    *)
(* loan-repayment posting triggers, the petty-cash unpost trigger, the     *)
(* staff-account migration, and the client-side payment / receipt voucher  *)
(* posting of StaffLoansManager.                                           *)
(*                                                                         *)
(* The tables are the COMMITTED contents of the database.  A trigger runs  *)
(* inside the transaction of the statement that fired it, under READ       *)
(* COMMITTED: its row count sees committed rows only and its own writes     *)
(* become visible at commit.  A posting transaction is therefore two       *)
(* steps: the step that reads (the numbering queries) and the step that    *)
(* writes and commits.  The client-side voucher posting is one step per    *)
(* awaited request, each request being a transaction of its own.           *)
(***************************************************************************)
EXTENDS Integers, FiniteSets, Sequences, TLC

\* ---------------------------------------------------------------- bounds
MaxOps == 3
MaxProcs == 2
MaxDay == 2

Procs == 1..MaxProcs
Dates == 1..MaxDay
Amounts == {150}

\* No alert() raised yet
NoAlert == ""

NULL == "NULL"

\* ------------------------------------------------------- static master data
\* bank_accounts rows: id -> coa_id (a bank account may have no ledger link)
BankAccounts == {"bank1", "bank2"}

BankCoaId(b) == IF b = "bank1" THEN "1111" ELSE NULL

\* chart_of_accounts rows seeded by the migrations
SeededAccounts ==
    {"5102", "6310", "6490", "1150", "1151", "1152", "1111"}

AccountType(code) ==
    IF code \in {"5102", "6310", "6490"} THEN "expense" ELSE "asset"

\* expense_category values of rows already in the table: a name of the
\* trigger's CASE and a value of the form's list
Categories == {"Office Supplies", "utilities"}

\* expenseCategories: the values the form's select can submit (three of the
\* 25), and the requiresContainer flag of each
expenseCategories == {"duty_customs", "utilities", "other"}

\* A mutant of requiresContainer: no category requires a container
NeverRequiresContainer(category) == FALSE

requiresContainer(category) == category = "duty_customs"

\* import_containers rows
ImportContainers == {"c1"}

VARIABLES
    chart_of_accounts,       \* set of account codes present
    petty_cash_transactions, \* set of rows
    staff_loans,             \* set of rows
    staff_loan_repayments,   \* set of rows
    staff_members,           \* set of rows
    journal_entries,         \* set of header rows
    journal_entry_lines,     \* set of line rows
    migrated,                \* the staff-account migration has run
    pc,                      \* per client: position in its current operation
    loc,                     \* per client: local variables of that operation
    nextId,                  \* gen_random_uuid()
    ops,                     \* operations started so far
    issued,                  \* history: numbers ever written, per date
    bank_statement_uploads,  \* set of rows
    bank_statement_lines,    \* set of rows
    storage,                 \* files in the bank-statements bucket
    response,                \* per client: the last response of the upload function
    deployed,                \* which source of the upload function is deployed
    text,                    \* input of parseBCAStatement
    parsed,                  \* its result
    str,                     \* input of parseAmount
    number,                  \* its result
    pdfData,                 \* input of extractTextFromPDF
    extractedText,           \* its result
    alert                    \* per client: the last alert of the petty-cash form

\* The variables of the bank-statement upload function
stmtVars == <<bank_statement_uploads, bank_statement_lines, storage, response,
              deployed, text, parsed, str, number, pdfData, extractedText>>

vars == <<chart_of_accounts, petty_cash_transactions, staff_loans,
          staff_loan_repayments, staff_members, journal_entries,
          journal_entry_lines, migrated, pc, loc, nextId, ops, issued,
          stmtVars, alert>>

NoLoc == [op |-> "none"]

\* ------------------------------------------------------------------ helpers
RECURSIVE SumOver(_, _)
SumOver(S, field) ==
    IF S = {} THEN 0
    ELSE LET x == CHOOSE y \in S : TRUE
         IN  (IF field = "debit" THEN x.debit ELSE x.credit)
             + SumOver(S \ {x}, field)

LinesOf(jid) == {l \in journal_entry_lines : l.journal_entry_id = jid}

RECURSIVE Digits(_)
Digits(n) == IF n < 10 THEN 1 ELSE 1 + Digits(n \div 10)

RECURSIVE Pow10(_)
Pow10(k) == IF k = 0 THEN 1 ELSE 10 * Pow10(k - 1)

\* LPAD(n::TEXT, len, '0'): pads on the left, and TRUNCATES to the first len
\* characters when the text is longer.  The text is read back as a number.
LPAD(n, len) ==
    IF Digits(n) <= len THEN n ELSE n \div Pow10(Digits(n) - len)

\* 'JE-' || TO_CHAR(date,'YYYYMMDD') || '-' || LPAD(count + 1, 4, 0)
\* The date part is the row's entry_date; the ordinal is kept as a number.
CountEntries(d) == Cardinality({e \in journal_entries : e.entry_date = d})

v_je_number(d) == LPAD(CountEntries(d) + 1, 4)

\* A row of journal_entries.  Ids count from 1 and 0 is the NULL id: the
\* vouchers carry no reference_id.  session is history, not a column: the
\* form session whose submission wrote the header (0 for a trigger).
Header(jid, num, d, module, ref, session) ==
    [id |-> jid, entry_number |-> num, entry_date |-> d,
     source_module |-> module, reference_id |-> ref, is_posted |-> TRUE,
     session |-> session]

Line(jid, n, account, debit, credit) ==
    [journal_entry_id |-> jid, line_number |-> n, account_id |-> account,
     debit |-> debit, credit |-> credit]

Issue(hist, headers) ==
    [d \in Dates |->
        hist[d] \cup {h.entry_number : h \in {x \in headers : x.entry_date = d}}]

\* ------------------------------------------------- petty cash: posting
\* Rows the form (or any other writer of the table) can insert.
PettyPayloads ==
    [transaction_type : {"expense"}, transaction_date : Dates,
     amount : Amounts, expense_category : Categories,
     bank_account_id : {NULL}, import_container_id : {NULL},
     fund_transfer_id : {NULL}]
    \cup
    [transaction_type : {"withdraw"}, transaction_date : Dates,
     amount : Amounts, expense_category : {NULL},
     bank_account_id : BankAccounts \cup {NULL}, import_container_id : {NULL},
     fund_transfer_id : {NULL}]
    \cup
    [transaction_type : {"withdraw"}, transaction_date : Dates,
     amount : Amounts, expense_category : {NULL},
     bank_account_id : {"bank1"}, import_container_id : {NULL},
     fund_transfer_id : {"ft1"}]

PettyRow(id, payload) ==
    [id |-> id,
     transaction_type |-> payload.transaction_type,
     transaction_date |-> payload.transaction_date,
     amount |-> payload.amount,
     expense_category |-> payload.expense_category,
     bank_account_id |-> payload.bank_account_id,
     import_container_id |-> payload.import_container_id,
     fund_transfer_id |-> payload.fund_transfer_id]

\* A mutant of CategoryCode: every category goes to the fallback account
AlwaysFallback(category) == "5102"

\* The CASE of the trigger (three of its fourteen names)
CategoryCode(category) ==
    CASE category = "Utilities" -> "6300"
      [] category = "Office Supplies" -> "6310"
      [] category = "Other Expenses" -> "6490"
      [] OTHER -> "5102"

\* SELECT id FROM chart_of_accounts WHERE account_type = 'expense' AND code = ..
\* and then the fallback to 5102
ExpenseAccount(chart, category) ==
    LET code == CategoryCode(category)
    IN  IF code \in chart /\ AccountType(code) = "expense" THEN code
        ELSE IF "5102" \in chart THEN "5102"
        ELSE NULL

\* The lines the trigger body writes after the header, and whether it raises.
PettyLines(chart, new, jid) ==
    IF new.transaction_type = "withdraw" THEN
        [raised |-> FALSE,
         lines |->
            {Line(jid, 1, "1102", new.amount, 0)}
            \cup
            (IF new.bank_account_id # NULL
                /\ BankCoaId(new.bank_account_id) # NULL
             THEN {Line(jid, 2, BankCoaId(new.bank_account_id), 0, new.amount)}
             ELSE {})]
    ELSE IF new.transaction_type = "expense" THEN
        IF ExpenseAccount(chart, new.expense_category) = NULL
        THEN [raised |-> TRUE, lines |-> {}]
        ELSE [raised |-> FALSE,
              lines |->
                {Line(jid, 1, ExpenseAccount(chart, new.expense_category),
                      new.amount, 0),
                 Line(jid, 2, "1102", 0, new.amount)}]
    ELSE [raised |-> FALSE, lines |-> {}]

\* AFTER INSERT trigger, first part: the fund-transfer skip, the lookup of
\* 1102 and the numbering query.  A raise is caught by the function's own
\* EXCEPTION WHEN OTHERS handler, which returns NEW (the row): the row is kept.
PettyInsert(p, payload) ==
    /\ pc[p] = "idle"
    /\ ops < MaxOps
    /\ ops' = ops + 1
    /\ nextId' = nextId + 1
    /\ LET new == PettyRow(nextId, payload)
       IN  IF new.fund_transfer_id # NULL \/ "1102" \notin chart_of_accounts
           THEN /\ petty_cash_transactions' = petty_cash_transactions \cup {new}
                /\ UNCHANGED <<pc, loc>>
           ELSE /\ pc' = [pc EXCEPT ![p] = "petty_posting"]
                /\ loc' = [loc EXCEPT ![p] =
                            [op |-> "petty", new |-> new,
                             je_number |-> v_je_number(new.transaction_date)]]
                /\ UNCHANGED petty_cash_transactions
    /\ UNCHANGED <<chart_of_accounts, staff_loans, staff_loan_repayments,
                   staff_members, journal_entries, journal_entry_lines,
                   migrated, issued>>
    /\ UNCHANGED stmtVars

\* AFTER INSERT trigger, second part: header, lines, RETURN of the row, commit.
\* When the body raises, the handler rolls the block back (header and lines)
\* and returns the row, so the transaction commits the source row alone.
post_petty_cash_to_journal_fixed(p) ==
    /\ pc[p] = "petty_posting"
    /\ LET new == loc[p].new
           jid == nextId
           body == PettyLines(chart_of_accounts, new, jid)
           head == Header(jid, loc[p].je_number, new.transaction_date,
                          "petty_cash", new.id, 0)
       IN  /\ petty_cash_transactions' = petty_cash_transactions \cup {new}
           /\ IF body.raised
              THEN UNCHANGED <<journal_entries, journal_entry_lines, issued>>
              ELSE /\ journal_entries' = journal_entries \cup {head}
                   /\ journal_entry_lines' = journal_entry_lines \cup body.lines
                   /\ issued' = Issue(issued, {head})
    /\ nextId' = nextId + 1
    /\ pc' = [pc EXCEPT ![p] = "idle"]
    /\ loc' = [loc EXCEPT ![p] = NoLoc]
    /\ UNCHANGED <<chart_of_accounts, staff_loans, staff_loan_repayments,
                   staff_members, migrated, ops>>
    /\ UNCHANGED <<stmtVars, alert>>

\* ------------------------------------------------- petty cash: the form
\* formData when the form is submitted.  '' and null are both NULL here.
FormData ==
    [transaction_type : {"expense"}, transaction_date : Dates,
     amount : Amounts, expense_category : {"duty_customs"},
     bank_account_id : {NULL}, import_container_id : ImportContainers \cup {NULL}]
    \cup
    [transaction_type : {"expense"}, transaction_date : Dates,
     amount : Amounts, expense_category : (expenseCategories \ {"duty_customs"}) \cup {NULL},
     bank_account_id : {NULL}, import_container_id : {NULL}]
    \cup
    [transaction_type : {"withdraw"}, transaction_date : Dates,
     amount : Amounts, expense_category : {NULL},
     bank_account_id : BankAccounts \cup {NULL}, import_container_id : {NULL}]

\* const payload = {..}.  No fund_transfer_id: an insert leaves it NULL and
\* an update leaves it as it is.
Payload(formData) ==
    [transaction_type |-> formData.transaction_type,
     transaction_date |-> formData.transaction_date,
     amount |-> formData.amount,
     expense_category |->
        IF formData.transaction_type = "expense"
        THEN formData.expense_category ELSE NULL,
     bank_account_id |->
        IF formData.transaction_type = "withdraw"
        THEN formData.bank_account_id ELSE NULL,
     import_container_id |-> formData.import_container_id,
     fund_transfer_id |-> NULL]

\* editingTransaction = null: the form adds a row
NoTransaction ==
    [id |-> 0, transaction_type |-> NULL, transaction_date |-> 0, amount |-> 0,
     expense_category |-> NULL, bank_account_id |-> NULL,
     import_container_id |-> NULL, fund_transfer_id |-> NULL]

\* Rows that do not come from the form
OtherPayloads ==
    {payload \in PettyPayloads :
        \/ payload.expense_category = "Office Supplies"
        \/ payload.fund_transfer_id # NULL}

\* .update(payload).eq('id', editingTransaction.id): one UPDATE statement.
\* petty_cash_transactions has an AFTER INSERT and a BEFORE DELETE trigger and
\* none for UPDATE, so the journal is left as it is.
PettyUpdate(editingTransaction, payload) ==
    /\ petty_cash_transactions' =
          {IF row.id = editingTransaction.id
           THEN [PettyRow(row.id, payload)
                    EXCEPT !.fund_transfer_id = row.fund_transfer_id]
           ELSE row : row \in petty_cash_transactions}
    /\ ops' = ops + 1
    /\ UNCHANGED <<chart_of_accounts, staff_loans, staff_loan_repayments,
                   staff_members, journal_entries, journal_entry_lines,
                   migrated, pc, loc, nextId, issued>>
    /\ UNCHANGED stmtVars

\* alert(..); return: nothing is sent to the database
Rejected(p, message) ==
    /\ alert' = [alert EXCEPT ![p] = message]
    /\ ops' = ops + 1
    /\ UNCHANGED <<chart_of_accounts, petty_cash_transactions, staff_loans,
                   staff_loan_repayments, staff_members, journal_entries,
                   journal_entry_lines, migrated, pc, loc, nextId, issued>>
    /\ UNCHANGED stmtVars

\* handleSubmit: the two validations, then the update of the row being
\* edited or the insert of a new row (its trigger runs in PettyInsert and
\* post_petty_cash_to_journal_fixed).  alert[p] keeps the validation alert of
\* the last submission of client p, NoAlert when it raised none.
handleSubmit(p, formData, editingTransaction) ==
    /\ pc[p] = "idle"
    /\ ops < MaxOps
    /\ IF formData.transaction_type = "expense"
          /\ formData.expense_category = NULL
       THEN Rejected(p, "Please select an expense category")
       ELSE IF requiresContainer(formData.expense_category)
               /\ formData.import_container_id = NULL
       THEN Rejected(p, "requires linking to an import container")
       ELSE /\ alert' = [alert EXCEPT ![p] = NoAlert]
            /\ IF editingTransaction # NoTransaction
               THEN PettyUpdate(editingTransaction, Payload(formData))
               ELSE PettyInsert(p, Payload(formData))

\* ------------------------------------------------- petty cash: unposting
\* BEFORE DELETE trigger and the delete itself, one transaction.
delete_petty_cash_journal(OLD) ==
    LET mine == {e \in journal_entries :
                    e.source_module = "petty_cash" /\ e.reference_id = OLD.id}
    IN  /\ journal_entry_lines' =
              {l \in journal_entry_lines :
                  l.journal_entry_id \notin {e.id : e \in mine}}
        /\ journal_entries' = journal_entries \ mine

PettyDelete(row) ==
    /\ row \in petty_cash_transactions
    /\ delete_petty_cash_journal(row)
    /\ petty_cash_transactions' = petty_cash_transactions \ {row}
    /\ UNCHANGED <<chart_of_accounts, staff_loans, staff_loan_repayments,
                   staff_members, migrated, pc, loc, nextId, ops, issued>>
    /\ UNCHANGED <<stmtVars, alert>>

\* ------------------------------------------------- staff loans: posting
\* TO_CHAR(date, 'YYMM') / DATE_TRUNC('month', date): Dates are days of one month
MonthOf(d) == d \div 32

LoanPayloads ==
    [staff_name : {"ali"}, loan_amount : Amounts, loan_date : Dates,
     payment_method : {"cash"}, bank_account_id : {NULL}]
    \cup
    [staff_name : {"ali"}, loan_amount : Amounts, loan_date : Dates,
     payment_method : {"bank"}, bank_account_id : BankAccounts]

\* 'LOAN-' || YYMM || '-' || LPAD(count + 1, 4, 0), counted over the month
generate_loan_number(loan_date) ==
    LPAD(Cardinality({l \in staff_loans :
                        MonthOf(l.loan_date) = MonthOf(loan_date)}) + 1, 4)

\* Line 2 of a loan, line 1 of a repayment: the bank's ledger account when the
\* row is bank-funded with a bank account, the petty cash account otherwise.
CashOrBankAccount(chart, payment_method, bank_account_id) ==
    IF payment_method = "bank" /\ bank_account_id # NULL
    THEN BankCoaId(bank_account_id)
    ELSE IF "1102" \in chart THEN "1102" ELSE NULL

\* BEFORE INSERT triggers, first part: loan number, lookup of 1151 (its
\* absence raises and aborts the insert), numbering query.
LoanInsert(p, payload) ==
    /\ ~migrated
    /\ pc[p] = "idle"
    /\ ops < MaxOps
    /\ ops' = ops + 1
    /\ nextId' = nextId + 1
    /\ IF "1151" \notin chart_of_accounts
       THEN UNCHANGED <<pc, loc>>
       ELSE /\ pc' = [pc EXCEPT ![p] = "loan_posting"]
            /\ loc' = [loc EXCEPT ![p] =
                        [op |-> "loan", id |-> nextId, row |-> payload,
                         loan_number |-> generate_loan_number(payload.loan_date),
                         je_number |-> v_je_number(payload.loan_date)]]
    /\ UNCHANGED <<chart_of_accounts, petty_cash_transactions, staff_loans,
                   staff_loan_repayments, staff_members, journal_entries,
                   journal_entry_lines, migrated, issued>>
    /\ UNCHANGED <<stmtVars, alert>>

\* BEFORE INSERT trigger, second part, the row insert and the commit.  The
\* UNIQUE constraint on loan_number aborts the whole transaction.
post_staff_loan_to_journal(p) ==
    /\ pc[p] = "loan_posting"
    /\ LET row == loc[p].row
           jid == nextId
           head == Header(jid, loc[p].je_number, row.loan_date, "staff_loan",
                          loc[p].id, 0)
           loan == [id |-> loc[p].id, loan_number |-> loc[p].loan_number,
                    staff_name |-> row.staff_name,
                    loan_amount |-> row.loan_amount,
                    loan_date |-> row.loan_date, status |-> "active",
                    amount_repaid |-> 0,
                    payment_method |-> row.payment_method,
                    bank_account_id |-> row.bank_account_id,
                    journal_entry_id |-> jid]
       IN  IF \E l \in staff_loans : l.loan_number = loan.loan_number
           THEN UNCHANGED <<staff_loans, journal_entries, journal_entry_lines,
                            issued>>
           ELSE /\ staff_loans' = staff_loans \cup {loan}
                /\ journal_entries' = journal_entries \cup {head}
                /\ journal_entry_lines' = journal_entry_lines \cup
                     {Line(jid, 1, "1151", row.loan_amount, 0),
                      Line(jid, 2,
                           CashOrBankAccount(chart_of_accounts,
                                             row.payment_method,
                                             row.bank_account_id),
                           0, row.loan_amount)}
                /\ issued' = Issue(issued, {head})
    /\ nextId' = nextId + 1
    /\ pc' = [pc EXCEPT ![p] = "idle"]
    /\ loc' = [loc EXCEPT ![p] = NoLoc]
    /\ UNCHANGED <<chart_of_accounts, petty_cash_transactions,
                   staff_loan_repayments, staff_members, migrated, ops>>
    /\ UNCHANGED <<stmtVars, alert>>

\* ------------------------------------------------- loan repayments: posting
\* A repayment of a part of the loan, or of all of it
RepaymentAmounts == {50} \cup Amounts

RepaymentPayloads ==
    [amount : RepaymentAmounts, repayment_date : Dates,
     payment_method : {"cash"}, bank_account_id : {NULL}]
    \cup
    [amount : RepaymentAmounts, repayment_date : Dates,
     payment_method : {"bank"}, bank_account_id : {"bank1"}]

RepaymentNumber(repayment_date) ==
    LPAD(Cardinality({r \in staff_loan_repayments :
                        MonthOf(r.repayment_date) = MonthOf(repayment_date)})
         + 1, 4)

\* A status that does not look at the amounts
LoanStatusActive(amount_repaid, loan_amount) == "active"

\* CASE WHEN amount_repaid + NEW.amount >= loan_amount THEN 'repaid'
\*      WHEN amount_repaid + NEW.amount > 0 THEN 'partial' ELSE 'active'
LoanStatus(amount_repaid, loan_amount) ==
    IF amount_repaid >= loan_amount THEN "repaid"
    ELSE IF amount_repaid > 0 THEN "partial"
    ELSE "active"

\* BEFORE INSERT trigger, first part: repayment number and numbering query.
RepaymentInsert(p, loan, payload) ==
    /\ ~migrated
    /\ pc[p] = "idle"
    /\ loan \in staff_loans
    /\ ops < MaxOps
    /\ ops' = ops + 1
    /\ nextId' = nextId + 1
    /\ pc' = [pc EXCEPT ![p] = "repayment_posting"]
    /\ loc' = [loc EXCEPT ![p] =
                [op |-> "repayment", id |-> nextId, loan_id |-> loan.id,
                 row |-> payload,
                 repayment_number |-> RepaymentNumber(payload.repayment_date),
                 je_number |-> v_je_number(payload.repayment_date)]]
    /\ UNCHANGED <<chart_of_accounts, petty_cash_transactions, staff_loans,
                   staff_loan_repayments, staff_members, journal_entries,
                   journal_entry_lines, migrated, issued>>
    /\ UNCHANGED <<stmtVars, alert>>

\* BEFORE INSERT trigger, second part: header, lines, the update of the loan,
\* the row insert and the commit.  The foreign key on loan_id and the UNIQUE
\* constraint on repayment_number abort the whole transaction.
post_loan_repayment_to_journal(p) ==
    /\ pc[p] = "repayment_posting"
    /\ LET row == loc[p].row
           jid == nextId
           head == Header(jid, loc[p].je_number, row.repayment_date,
                          "loan_repayment", loc[p].id, 0)
           rep == [id |-> loc[p].id, loan_id |-> loc[p].loan_id,
                   repayment_number |-> loc[p].repayment_number,
                   repayment_date |-> row.repayment_date,
                   amount |-> row.amount, journal_entry_id |-> jid]
           loans == {l \in staff_loans : l.id = loc[p].loan_id}
       IN  IF loans = {}
              \/ \E r \in staff_loan_repayments :
                    r.repayment_number = rep.repayment_number
           THEN UNCHANGED <<staff_loans, staff_loan_repayments, journal_entries,
                            journal_entry_lines, issued>>
           ELSE /\ staff_loan_repayments' = staff_loan_repayments \cup {rep}
                /\ journal_entries' = journal_entries \cup {head}
                /\ journal_entry_lines' = journal_entry_lines \cup
                     {Line(jid, 1,
                           CashOrBankAccount(chart_of_accounts,
                                             row.payment_method,
                                             row.bank_account_id),
                           row.amount, 0),
                      Line(jid, 2,
                           IF "1151" \in chart_of_accounts THEN "1151" ELSE NULL,
                           0, row.amount)}
                /\ staff_loans' =
                     (staff_loans \ loans) \cup
                     {[l EXCEPT
                         !.amount_repaid = l.amount_repaid + row.amount,
                         !.status = LoanStatus(l.amount_repaid + row.amount,
                                               l.loan_amount)] : l \in loans}
                /\ issued' = Issue(issued, {head})
    /\ nextId' = nextId + 1
    /\ pc' = [pc EXCEPT ![p] = "idle"]
    /\ loc' = [loc EXCEPT ![p] = NoLoc]
    /\ UNCHANGED <<chart_of_accounts, petty_cash_transactions, staff_members,
                   migrated, ops>>
    /\ UNCHANGED <<stmtVars, alert>>

\* ------------------------------------------------- staff loans: deletion
\* DELETE FROM staff_loans, which the "manage staff loans" policy grants: the
\* repayments go with the loan (ON DELETE CASCADE); no trigger unposts.
DeleteStaffLoan(loan) ==
    /\ ~migrated
    /\ loan \in staff_loans
    /\ staff_loans' = staff_loans \ {loan}
    /\ staff_loan_repayments' =
          {r \in staff_loan_repayments : r.loan_id # loan.id}
    /\ UNCHANGED <<chart_of_accounts, petty_cash_transactions, staff_members,
                   journal_entries, journal_entry_lines, migrated, pc, loc,
                   nextId, ops, issued>>
    /\ UNCHANGED <<stmtVars, alert>>

\* ------------------------------------------------- staff-account migration
LoanModules == {"staff_loan", "loan_repayment"}

MigratedChart(chart) == (chart \cup {"1160"}) \ {"1150", "1151", "1152"}

\* Drops the loan triggers and tables, deletes their journal entries, and
\* replaces the accounts 1150-1152 by the parent account 1160.
RevertStaffLoans ==
    /\ ~migrated
    /\ \A p \in Procs : pc[p] = "idle"
    /\ LET gone == {e \in journal_entries : e.source_module \in LoanModules}
       IN  /\ journal_entry_lines' =
                 {l \in journal_entry_lines :
                     l.journal_entry_id \notin {e.id : e \in gone}}
           /\ journal_entries' = journal_entries \ gone
    /\ staff_loans' = {}
    /\ staff_loan_repayments' = {}
    /\ chart_of_accounts' = MigratedChart(chart_of_accounts)
    /\ migrated' = TRUE
    /\ UNCHANGED <<petty_cash_transactions, staff_members, pc, loc, nextId,
                   ops, issued>>
    /\ UNCHANGED <<stmtVars, alert>>

\* ------------------------------------------------- staff accounts
\* Two spellings of one staff member's name
StaffNames == {"ali", "Ali"}

\* LOWER(staff_name)
LOWER(name) == IF name = "Ali" THEN "ali" ELSE name

StaffCodes == <<"1161", "1162", "1163", "1164", "1165", "1166", "1167",
                "1168", "1169">>

IsStaffCode(code) == \E i \in DOMAIN StaffCodes : StaffCodes[i] = code

\* '116' || LPAD(count + 1, 1, 0), counted over the codes LIKE '116%' but 1160
v_next_code(chart) ==
    StaffCodes[LPAD(Cardinality({c \in chart : IsStaffCode(c)}) + 1, 1)]

\* The function runs under READ COMMITTED: each of its statements sees the
\* rows committed when the statement starts.  First statement: the lookup of
\* the staff member by LOWER(staff_name).  A member found is returned and the
\* function ends.
create_staff_account(p, p_staff_name) ==
    /\ migrated
    /\ pc[p] = "idle"
    /\ ops < MaxOps
    /\ ops' = ops + 1
    /\ IF \E m \in staff_members : LOWER(m.staff_name) = LOWER(p_staff_name)
       THEN UNCHANGED <<pc, loc>>
       ELSE /\ pc' = [pc EXCEPT ![p] = "looked up"]
            /\ loc' = [loc EXCEPT ![p] =
                 [op |-> "staff", p_staff_name |-> p_staff_name]]
    /\ UNCHANGED <<chart_of_accounts, petty_cash_transactions, staff_loans,
                   staff_loan_repayments, staff_members, journal_entries,
                   journal_entry_lines, migrated, nextId, issued>>
    /\ UNCHANGED <<stmtVars, alert>>

\* Second statement: the next code from the count of the staff codes
SelectNextCode(p) ==
    /\ pc[p] = "looked up"
    /\ pc' = [pc EXCEPT ![p] = "coded"]
    /\ loc' = [loc EXCEPT ![p] =
         [op |-> "staff", p_staff_name |-> loc[p].p_staff_name,
          v_next_code |-> v_next_code(chart_of_accounts)]]
    /\ UNCHANGED <<chart_of_accounts, petty_cash_transactions, staff_loans,
                   staff_loan_repayments, staff_members, journal_entries,
                   journal_entry_lines, migrated, nextId, ops, issued>>
    /\ UNCHANGED <<stmtVars, alert>>

\* The two inserts and the commit.  A code already in the chart violates the
\* unique constraint on chart_of_accounts.code, a staff_name already in
\* staff_members (compared as written, not in lower case) the one on
\* staff_members.staff_name: the function raises and nothing is written.
InsertStaffAccount(p) ==
    /\ pc[p] = "coded"
    /\ pc' = [pc EXCEPT ![p] = "idle"]
    /\ loc' = [loc EXCEPT ![p] = NoLoc]
    /\ IF \/ loc[p].v_next_code \in chart_of_accounts
          \/ \E m \in staff_members : m.staff_name = loc[p].p_staff_name
       THEN UNCHANGED <<chart_of_accounts, staff_members>>
       ELSE /\ chart_of_accounts' =
                 chart_of_accounts \cup {loc[p].v_next_code}
            /\ staff_members' = staff_members \cup
                 {[staff_name |-> loc[p].p_staff_name,
                   coa_account_id |-> loc[p].v_next_code]}
    /\ UNCHANGED <<petty_cash_transactions, staff_loans, staff_loan_repayments,
                   journal_entries, journal_entry_lines, migrated, nextId,
                   ops, issued>>
    /\ UNCHANGED <<stmtVars, alert>>

\* ------------------------------------------------- payment / receipt vouchers
\* transactionData of the advance and repayment forms; an empty
\* bank_account_id is NULL here.
\* parseFloat(transactionData.amount): the amount field is a number input
\* without a minimum, and the handlers do not check the amount.
VoucherAmounts == Amounts \cup {0}

TransactionData ==
    [amount : VoucherAmounts, transaction_date : Dates,
     payment_method : {"cash"}, bank_account_id : {NULL}]
    \cup
    [amount : VoucherAmounts, transaction_date : Dates,
     payment_method : {"bank"}, bank_account_id : BankAccounts \cup {NULL}]

\* bankCoaId of handleGiveAdvance / handleRecordRepayment
bankCoaId(chart, transactionData) ==
    IF transactionData.payment_method = "bank"
       /\ transactionData.bank_account_id # NULL
    THEN BankCoaId(transactionData.bank_account_id)
    ELSE IF "1102" \in chart THEN "1102" ELSE NULL

\* The rows the query of generateEntryNumber can return first: the entries of
\* the date with the greatest entry_number.
TopRows(date) ==
    {e \in journal_entries :
        /\ e.entry_date = date
        /\ \A f \in journal_entries :
              f.entry_date = date => f.entry_number <= e.entry_number}

\* lastNum + 1 from the row read, 0001 when the date has no entry
generateEntryNumber(data) ==
    IF data = {} THEN 1
    ELSE (CHOOSE e \in data : TRUE).entry_number + 1

\* The handler up to and including generateEntryNumber: the account lookups
\* and the read of the last number.  'Payment account not found' is thrown
\* before anything is written.
Submit(p, source_module, selectedStaff, transactionData, session) ==
    /\ ops < MaxOps
    /\ ops' = ops + 1
    /\ IF bankCoaId(chart_of_accounts, transactionData) = NULL
       THEN /\ pc' = [pc EXCEPT ![p] = "idle"]
            /\ loc' = [loc EXCEPT ![p] = NoLoc]
       ELSE \E data \in
               IF TopRows(transactionData.transaction_date) = {} THEN {{}}
               ELSE {{e} : e \in TopRows(transactionData.transaction_date)} :
            /\ pc' = [pc EXCEPT ![p] = "numbered"]
            /\ loc' = [loc EXCEPT ![p] =
                 [op |-> "voucher",
                  source_module |-> source_module,
                  selectedStaff |-> selectedStaff,
                  transactionData |-> transactionData,
                  bankCoaId |-> bankCoaId(chart_of_accounts, transactionData),
                  entryNumber |-> generateEntryNumber(data),
                  session |-> session,
                  read_id |-> IF data = {} THEN 0
                              ELSE (CHOOSE e \in data : TRUE).id,
                  read_lines |-> IF data = {} THEN 0
                                 ELSE Cardinality(
                                        LinesOf((CHOOSE e \in data : TRUE).id)),
                  journalEntry |-> 0]]
    /\ UNCHANGED <<chart_of_accounts, petty_cash_transactions, staff_loans,
                   staff_loan_repayments, staff_members, journal_entries,
                   journal_entry_lines, migrated, issued>>
    /\ UNCHANGED <<stmtVars, alert>>

\* Payment voucher: Dr staff, Cr bank / cash
handleGiveAdvance(p, selectedStaff, transactionData) ==
    /\ pc[p] = "idle"
    /\ selectedStaff \in staff_members
    /\ nextId' = nextId + 1
    /\ Submit(p, "payment", selectedStaff, transactionData, nextId)

\* Receipt voucher: Dr bank / cash, Cr staff
handleRecordRepayment(p, selectedStaff, transactionData) ==
    /\ pc[p] = "idle"
    /\ selectedStaff \in staff_members
    /\ nextId' = nextId + 1
    /\ Submit(p, "receipt", selectedStaff, transactionData, nextId)

\* supabase.from('journal_entries').insert(..): a request of its own, visible
\* to every other client as soon as it returns.
InsertHeader(p) ==
    /\ pc[p] = "numbered"
    /\ LET head == Header(nextId, loc[p].entryNumber,
                          loc[p].transactionData.transaction_date,
                          loc[p].source_module, 0, loc[p].session)
       IN  /\ journal_entries' = journal_entries \cup {head}
           /\ issued' = Issue(issued, {head})
    /\ loc' = [loc EXCEPT ![p].journalEntry = nextId]
    /\ pc' = [pc EXCEPT ![p] = "header"]
    /\ nextId' = nextId + 1
    /\ UNCHANGED <<chart_of_accounts, petty_cash_transactions, staff_loans,
                   staff_loan_repayments, staff_members, journal_entry_lines,
                   migrated, ops>>
    /\ UNCHANGED <<stmtVars, alert>>

VoucherLines(l) ==
    LET amount == l.transactionData.amount
        staff == l.selectedStaff.coa_account_id
    IN  IF l.source_module = "payment"
        THEN {Line(l.journalEntry, 1, staff, amount, 0),
              Line(l.journalEntry, 2, l.bankCoaId, 0, amount)}
        ELSE {Line(l.journalEntry, 1, l.bankCoaId, amount, 0),
              Line(l.journalEntry, 2, staff, 0, amount)}

\* supabase.from('journal_entry_lines').insert(lines): the next request.  On
\* success the form is closed and reset.
InsertLines(p) ==
    /\ pc[p] = "header"
    /\ journal_entry_lines' = journal_entry_lines \cup VoucherLines(loc[p])
    /\ pc' = [pc EXCEPT ![p] = "idle"]
    /\ loc' = [loc EXCEPT ![p] = NoLoc]
    /\ UNCHANGED <<chart_of_accounts, petty_cash_transactions, staff_loans,
                   staff_loan_repayments, staff_members, journal_entries,
                   migrated, nextId, ops, issued>>
    /\ UNCHANGED <<stmtVars, alert>>

\* jeError: the header request fails; nothing was written, the error is shown.
HeaderError(p) ==
    /\ pc[p] = "numbered"
    /\ pc' = [pc EXCEPT ![p] = "idle"]
    /\ loc' = [loc EXCEPT ![p] = NoLoc]
    /\ UNCHANGED <<chart_of_accounts, petty_cash_transactions, staff_loans,
                   staff_loan_repayments, staff_members, journal_entries,
                   journal_entry_lines, migrated, nextId, ops, issued>>
    /\ UNCHANGED <<stmtVars, alert>>

\* linesError: the lines request fails.  The catch block shows the error; the
\* header stays, the form stays open with its data.
LinesError(p) ==
    /\ pc[p] = "header"
    /\ pc' = [pc EXCEPT ![p] = "form"]
    /\ UNCHANGED <<chart_of_accounts, petty_cash_transactions, staff_loans,
                   staff_loan_repayments, staff_members, journal_entries,
                   journal_entry_lines, migrated, loc, nextId, ops, issued>>
    /\ UNCHANGED <<stmtVars, alert>>

\* The user submits the still-open form again: the handler runs from the top
\* with the same staff member and the same data.
Resubmit(p) ==
    /\ pc[p] = "form"
    /\ UNCHANGED nextId
    /\ Submit(p, loc[p].source_module, loc[p].selectedStaff,
              loc[p].transactionData, loc[p].session)

\* The user closes the form.
CloseForm(p) ==
    /\ pc[p] = "form"
    /\ pc' = [pc EXCEPT ![p] = "idle"]
    /\ loc' = [loc EXCEPT ![p] = NoLoc]
    /\ UNCHANGED <<chart_of_accounts, petty_cash_transactions, staff_loans,
                   staff_loan_repayments, staff_members, journal_entries,
                   journal_entry_lines, migrated, nextId, ops, issued>>
    /\ UNCHANGED <<stmtVars, alert>>

\* ------------------------------------------------- reports
\* A NULL date parameter
NoDate == 0

\* chart_of_accounts.normal_balance: the accounts of the model are asset and
\* expense accounts
normal_balance(code) ==
    IF AccountType(code) \in {"asset", "expense"} THEN "debit" ELSE "credit"

\* coa LEFT JOIN journal_entry_lines jel ON jel.account_id = coa.id
\*     LEFT JOIN journal_entries je ON jel.journal_entry_id = je.id
\*          AND (p_start_date IS NULL OR je.entry_date >= p_start_date)
\*          AND je.entry_date <= p_end_date
\* for one account: a row for each line of the account, with the header that
\* satisfies the ON condition, or with NULL for je when none does.
TrialBalanceJoin(code, p_start_date, p_end_date) ==
    {[jel |-> l,
      je |-> {e.id : e \in {h \in journal_entries :
                  /\ h.id = l.journal_entry_id
                  /\ (p_start_date = NoDate \/ h.entry_date >= p_start_date)
                  /\ h.entry_date <= p_end_date}}] :
        l \in {x \in journal_entry_lines : x.account_id = code}}

\* get_trial_balance: the rows of the accounts (every account of the model
\* is active), grouped, HAVING a non-zero sum of debits or of credits.  The
\* sums are over jel of the joined rows.
get_trial_balance(p_start_date, p_end_date) ==
    LET Lines(code) ==
            {r.jel : r \in TrialBalanceJoin(code, p_start_date, p_end_date)}
        Row(code) ==
            [code |-> code,
             normal_balance |-> normal_balance(code),
             total_debit |-> SumOver(Lines(code), "debit"),
             total_credit |-> SumOver(Lines(code), "credit"),
             balance |-> IF normal_balance(code) = "debit"
                         THEN SumOver(Lines(code), "debit")
                              - SumOver(Lines(code), "credit")
                         ELSE SumOver(Lines(code), "credit")
                              - SumOver(Lines(code), "debit")]
    IN  {Row(code) : code \in
            {c \in chart_of_accounts :
                \/ SumOver(Lines(c), "debit") # 0
                \/ SumOver(Lines(c), "credit") # 0}}

\* The header of a line
EntryOf(l) == CHOOSE e \in journal_entries : e.id = l.journal_entry_id

\* ORDER BY je.entry_date, je.entry_number, jel.line_number
OrderKeyLeq(l1, l2) ==
    LET e1 == EntryOf(l1)
        e2 == EntryOf(l2)
    IN  \/ e1.entry_date < e2.entry_date
        \/ /\ e1.entry_date = e2.entry_date
           /\ e1.entry_number < e2.entry_number
        \/ /\ e1.entry_date = e2.entry_date
           /\ e1.entry_number = e2.entry_number
           /\ l1.line_number <= l2.line_number

\* jel.debit - jel.credit
DebitLessCredit(l) == l.debit - l.credit

\* SUM(jel.debit - jel.credit) OVER (ORDER BY .. ROWS BETWEEN UNBOUNDED
\* PRECEDING AND CURRENT ROW): the sum over the rows 1..i of the result
RECURSIVE WindowSum(_, _)
WindowSum(rows, i) ==
    IF i = 0 THEN 0 ELSE WindowSum(rows, i - 1) + DebitLessCredit(rows[i])

\* get_staff_ledger_from_journal: the results the call can return.  No staff
\* member of that name raises an exception: no result.  The lines of the
\* staff member's account whose entry is dated inside the range, in the
\* order of the ORDER BY; rows with equal keys come in either order.  line
\* is history: the journal line the row was made from.
get_staff_ledger_from_journal(p_staff_name, p_start_date, p_end_date) ==
    LET Selected(v_coa_id) ==
            {l \in journal_entry_lines :
                /\ l.account_id = v_coa_id
                /\ \E e \in journal_entries :
                      /\ e.id = l.journal_entry_id
                      /\ e.entry_date >= p_start_date
                      /\ e.entry_date <= p_end_date}
        Orders(S) ==
            {f \in [1..Cardinality(S) -> S] :
                /\ \A i, j \in DOMAIN f : i # j => f[i] # f[j]
                /\ \A i, j \in DOMAIN f : i < j => OrderKeyLeq(f[i], f[j])}
        Rows(f) ==
            [i \in DOMAIN f |->
                [entry_date |-> EntryOf(f[i]).entry_date,
                 entry_number |-> EntryOf(f[i]).entry_number,
                 debit |-> f[i].debit,
                 credit |-> f[i].credit,
                 balance |-> WindowSum(f, i),
                 line |-> f[i]]]
    IN  UNION {{Rows(f) : f \in Orders(Selected(m.coa_account_id))} :
                  m \in {x \in staff_members :
                            LOWER(x.staff_name) = LOWER(p_staff_name)}}

\* ------------------------------------------------- bank statements: amounts
\* A string is a sequence of one-character strings.
MaxLen == 5

DigitChars == {"0", "1", "2", "3", "4", "5", "6", "7", "8", "9"}

\* The characters the generated amount tokens are made of
AmountChars == {"0", "1", ".", ","}

RECURSIVE Strings(_)
Strings(n) ==
    IF n = 0 THEN {<<>>}
    ELSE LET shorter == Strings(n - 1)
         IN  shorter \cup
             {Append(s, c) : s \in {x \in shorter : Len(x) = n - 1},
                             c \in AmountChars}

\* A number: the digits before and after the decimal point, without leading
\* and trailing zeros.  Two numbers are equal iff their records are.
RECURSIVE StripLeading(_)
StripLeading(ds) ==
    IF ds # <<>> /\ Head(ds) = "0" THEN StripLeading(Tail(ds)) ELSE ds

RECURSIVE StripTrailing(_)
StripTrailing(ds) ==
    IF ds # <<>> /\ ds[Len(ds)] = "0"
    THEN StripTrailing(SubSeq(ds, 1, Len(ds) - 1))
    ELSE ds

Num(int, frac) == [int |-> StripLeading(int), frac |-> StripTrailing(frac)]

Zero == Num(<<>>, <<>>)

\* The longest prefix of s made of digits
RECURSIVE TakeDigits(_)
TakeDigits(s) ==
    IF s # <<>> /\ Head(s) \in DigitChars
    THEN <<Head(s)>> \o TakeDigits(Tail(s))
    ELSE <<>>

\* parseFloat(s) || 0 on a string of digits, periods and commas: the longest
\* prefix "digits [. digits]" is read, the rest is ignored; without a digit
\* the result is NaN, which || turns into 0.
parseFloat(s) ==
    LET int == TakeDigits(s)
        rest == SubSeq(s, Len(int) + 1, Len(s))
        frac == IF rest # <<>> /\ Head(rest) = "." THEN TakeDigits(Tail(rest))
                ELSE <<>>
    IN  IF int = <<>> /\ frac = <<>> THEN Zero ELSE Num(int, frac)

Count(s, c) == Cardinality({i \in DOMAIN s : s[i] = c})

\* s.replace(/c/g, '')
RemoveAll(s, c) == SelectSeq(s, LAMBDA x : x # c)

\* A replacement that leaves the string as it is
ReplaceNone(s, c, d) == s

\* s.replace(c, d): the first occurrence only
ReplaceFirst(s, c, d) ==
    IF Count(s, c) = 0 THEN s
    ELSE LET i == CHOOSE j \in DOMAIN s :
                     s[j] = c /\ \A k \in 1..(j - 1) : s[k] # c
         IN  [s EXCEPT ![i] = d]

\* parseAmount of parse-bca-statement/index.ts
parseAmount(s) ==
    LET dotCount == Count(s, ".")
        commaCount == Count(s, ",")
        cleaned ==
            IF dotCount > 1 \/ (dotCount = 1 /\ commaCount = 1)
            THEN ReplaceFirst(RemoveAll(s, "."), ",", ".")
            ELSE IF commaCount > 1 THEN RemoveAll(s, ",")
            ELSE IF dotCount = 1 /\ commaCount = 0 THEN s
            ELSE IF commaCount = 1 /\ dotCount = 0
                 THEN ReplaceFirst(s, ",", ".")
            ELSE SelectSeq(s, LAMBDA x : x \in DigitChars)
    IN  parseFloat(cleaned)

\* parseAmount of the other source of the function (part_005)
parseAmount_part_005(s) ==
    LET dotCount == Count(s, ".")
        commaCount == Count(s, ",")
        cleaned ==
            IF dotCount > 1
            THEN ReplaceFirst(RemoveAll(s, "."), ",", ".")
            ELSE IF commaCount > 1 THEN RemoveAll(s, ",")
            ELSE IF dotCount = 1 /\ commaCount = 1
                 THEN ReplaceFirst(RemoveAll(s, "."), ",", ".")
            ELSE IF commaCount = 1 /\ dotCount = 0
                 THEN ReplaceFirst(s, ",", ".")
            ELSE s
    IN  parseFloat(cleaned)

\* The two sources of the upload function under src
Versions == {"index.ts", "part_005"}

ParseAmountOf(version, s) ==
    IF version = "index.ts" THEN parseAmount(s) ELSE parseAmount_part_005(s)

\* The amounts written in the statements of the model
Amount_1_500_000_00 ==
    <<"1", ".", "5", "0", "0", ".", "0", "0", "0", ",", "0", "0">>

Amount_5_000_000_00 ==
    <<"5", ".", "0", "0", "0", ".", "0", "0", "0", ",", "0", "0">>

\* The tokens given to parseAmount: every string up to MaxLen characters, and
\* the amounts of the examples
ExampleTokens ==
    { <<"1", ".", "2", "3", "4", ".", "5", "6", "7", ",", "8", "9">>,
      <<"1", ",", "2", "3", "4", ",", "5", "6", "7", ".", "8", "9">>,
      <<"1", "2", "3", "4", "5", "6", "7">>,
      Amount_1_500_000_00, Amount_5_000_000_00 }

AmountTokens == Strings(MaxLen) \cup ExampleTokens

\* number before parseAmount has run
NoNumber == [int |-> <<"?">>, frac |-> <<>>]

\* One call of parseAmount
ParseAmount ==
    /\ number = NoNumber
    /\ number' = ParseAmountOf(deployed, str)
    /\ UNCHANGED <<chart_of_accounts, petty_cash_transactions, staff_loans,
                   staff_loan_repayments, staff_members, journal_entries,
                   journal_entry_lines, migrated, pc, loc, nextId, ops, issued,
                   bank_statement_uploads, bank_statement_lines, storage,
                   response, deployed, text, parsed, str,
                   pdfData, extractedText, alert>>

\* ------------------------------------------------- bank statements: parsing
\* The extracted text, after text.replace(/\s+/g, ' '), is a sequence of
\* tokens separated by single spaces.  A token is a date DD/MM, a word of
\* letters, an amount, an indicator DB / CR, or the table header
\* TANGGAL KETERANGAN CBG MUTASI SALDO.  The PERIODE line is kept apart as the
\* month it names (0: the text names no period).
MaxTokens == 4
MaxLines == 2

Tok(k, day, month, chars) ==
    [k |-> k, day |-> day, month |-> month, chars |-> chars]

Date_12_01 == Tok("date", 12, 1, <<"1", "2", "/", "0", "1">>)

Date_13_01 == Tok("date", 13, 1, <<"1", "3", "/", "0", "1">>)

Word == Tok("word", 0, 0, <<"T", "R", "A", "N", "S", "F", "E", "R">>)

CR == Tok("ind", 0, 0, <<"C", "R">>)

DB == Tok("ind", 0, 0, <<"D", "B">>)

TableHeader == Tok("header", 0, 0, <<>>)

AmountTok(chars) == Tok("amount", 0, 0, chars)

Alphabet ==
    {Date_12_01, Date_13_01, Word, CR, DB, TableHeader,
     AmountTok(Amount_1_500_000_00), AmountTok(Amount_5_000_000_00)}

RECURSIVE TokenSeqs(_)
TokenSeqs(n) ==
    IF n = 0 THEN {<<>>}
    ELSE LET shorter == TokenSeqs(n - 1)
         IN  shorter \cup
             {Append(s, c) : s \in {x \in shorter : Len(x) = n - 1},
                             c \in Alphabet}

\* 12/01 TRANSFER MASUK 1.500.000,00 CR 5.000.000,00
Line_12_01 ==
    <<Date_12_01, Word, Word, AmountTok(Amount_1_500_000_00), CR,
      AmountTok(Amount_5_000_000_00)>>

\* A statement line that prints no balance
Line_13_01 == <<Date_13_01, Word, AmountTok(Amount_1_500_000_00), DB>>

\* A statement line that has no description
Line_bare ==
    <<Date_12_01, AmountTok(Amount_1_500_000_00), CR,
      AmountTok(Amount_5_000_000_00)>>

LineShapes == {Line_12_01, Line_13_01, Line_bare}

RECURSIVE Statements(_)
Statements(n) ==
    IF n = 0 THEN {<<>>}
    ELSE LET shorter == Statements(n - 1)
         IN  shorter \cup {s \o l : s \in shorter, l \in LineShapes}

\* Months a PERIODE line names in the model: none, JANUARI, MARET
Periods == {0, 1, 3}

Texts ==
    [period : Periods,
     tokens : TokenSeqs(MaxTokens)
              \cup Statements(MaxLines)
              \cup {<<TableHeader>> \o s : s \in Statements(MaxLines)}]

\* balance: null
NullNumber == [int |-> <<"null">>, frac |-> <<>>]

\* amount > 0 && !isNaN(amount) && amount < 1000000000000
ValidAmount(amount) == amount # Zero /\ Len(amount.int) <= 12

\* A transaction with the amount on the other side
TransactionSwapped(tok, debit, credit, balance, at) ==
    [date |-> [month |-> tok.month, day |-> tok.day],
     debitAmount |-> credit,
     creditAmount |-> debit,
     balance |-> balance,
     at |-> at]

\* A transaction with the amount on both sides
TransactionTwoSided(tok, debit, credit, balance, at) ==
    [date |-> [month |-> tok.month, day |-> tok.day],
     debitAmount |-> IF debit = Zero THEN credit ELSE debit,
     creditAmount |-> IF debit = Zero THEN credit ELSE debit,
     balance |-> balance,
     at |-> at]

\* A ParsedTransaction.  at is history: the position of the date token the
\* transaction was read from (0: none).
Transaction(tok, debit, credit, balance, at) ==
    [date |-> [month |-> tok.month, day |-> tok.day],
     debitAmount |-> debit, creditAmount |-> credit, balance |-> balance,
     at |-> at]

\* [A-Za-z\s\-\/]: tokens the description can run over
WordLike(tok) == tok.k \in {"word", "ind", "header"}

RECURSIVE SkipWords(_, _)
SkipWords(t, j) ==
    IF j <= Len(t) /\ WordLike(t[j]) THEN SkipWords(t, j + 1) ELSE j

\* What \d{1,3}(?:[\.,]\d{3})*(?:[\.,]\d{2})? matches at token j: an amount
\* token whole, or the two day digits of a date token; <<>> when it does not
\* match.
AmountAt(t, j) ==
    IF j > Len(t) THEN <<>>
    ELSE IF t[j].k = "amount" THEN t[j].chars
    ELSE IF t[j].k = "date" THEN SubSeq(t[j].chars, 1, 2)
    ELSE <<>>

\* One match of pattern1 / linePattern at the date token i: date, description,
\* amount, optional indicator, optional balance.
LineMatch(version, t, i) ==
    LET j == SkipWords(t, i + 1)
        ok == /\ t[i].k = "date"
              /\ j > i + 1
              /\ j <= Len(t)
              /\ t[j].k = "amount"
        hasIndicator == j + 1 <= Len(t) /\ t[j + 1].k = "ind"
        b == IF hasIndicator THEN j + 2 ELSE j + 1
        balanceStr == AmountAt(t, b)
        amount == ParseAmountOf(version, t[j].chars)
        isDebit == ~hasIndicator \/ t[j + 1] = DB
    IN  [ok |-> ok,
         next |-> IF balanceStr # <<>> THEN b + 1 ELSE b,
         valid |-> ok /\ ValidAmount(amount),
         txn |-> IF ok
                 THEN Transaction(t[i],
                                  IF isDebit THEN amount ELSE Zero,
                                  IF isDebit THEN Zero ELSE amount,
                                  IF balanceStr # <<>>
                                  THEN ParseAmountOf(version, balanceStr)
                                  ELSE NullNumber,
                                  i)
                 ELSE Transaction(t[i], Zero, Zero, NullNumber, 0)]

\* while ((match = pattern1.exec(text)) !== null): the matches from token i on
RECURSIVE Pattern1(_, _)
Pattern1(t, i) ==
    IF i > Len(t) THEN <<>>
    ELSE LET m == LineMatch("index.ts", t, i)
         IN  IF ~m.ok THEN Pattern1(t, i + 1)
             ELSE (IF m.valid THEN <<m.txn>> ELSE <<>>) \o Pattern1(t, m.next)

\* Pattern 2: a date, anything without a digit, an amount; always a debit
\* without a balance.
RECURSIVE Pattern2(_, _)
Pattern2(t, i) ==
    IF i > Len(t) THEN <<>>
    ELSE LET j == SkipWords(t, i + 1)
             amountStr == AmountAt(t, j)
             amount == parseAmount(amountStr)
         IN  IF t[i].k # "date" \/ amountStr = <<>> THEN Pattern2(t, i + 1)
             ELSE (IF ValidAmount(amount)
                   THEN <<Transaction(t[i], amount, Zero, NullNumber, i)>>
                   ELSE <<>>)
                  \o Pattern2(t, j + 1)

\* amount > 1000
Over1000(amount) ==
    \/ Len(amount.int) > 4
    \/ /\ Len(amount.int) = 4
       /\ (amount.int # <<"1", "0", "0", "0">> \/ amount.frac # <<>>)

\* Pattern 3: every number with a thousands group and a value over 1000 is a
\* debit dated the first day of the statement.
RECURSIVE Pattern3(_, _, _)
Pattern3(t, i, startMonth) ==
    IF i > Len(t) THEN <<>>
    ELSE (IF /\ t[i].k = "amount"
             /\ Over1000(parseAmount(t[i].chars))
             /\ Len(parseAmount(t[i].chars).int) <= 12
          THEN <<Transaction(Tok("date", 1, startMonth, <<>>),
                             parseAmount(t[i].chars), Zero, NullNumber, 0)>>
          ELSE <<>>)
         \o Pattern3(t, i + 1, startMonth)

\* startDate: the first day of the month of the period, of January without one
StartMonth(period) == IF period = 0 THEN 1 ELSE period

\* The digits 0..9 as characters: Digit[d + 1] is the character of d
Digit == <<"0", "1", "2", "3", "4", "5", "6", "7", "8", "9">>

DigitValue(c) == CHOOSE d \in 0..9 : Digit[d + 1] = c

Zeros(n) == [i \in 1..n |-> "0"]

\* x + y + carry on two digit strings of one length, one digit longer
RECURSIVE AddDigits(_, _, _)
AddDigits(x, y, carry) ==
    IF x = <<>> THEN <<Digit[carry + 1]>>
    ELSE LET n == Len(x)
             sum == DigitValue(x[n]) + DigitValue(y[n]) + carry
         IN  Append(AddDigits(SubSeq(x, 1, n - 1), SubSeq(y, 1, n - 1),
                              sum \div 10),
                    Digit[(sum % 10) + 1])

\* sum + t.debitAmount: the sum of two numbers, digit by digit (the rounding
\* of a double is left out: the amounts have two decimals)
Add(a, b) ==
    LET i == IF Len(a.int) > Len(b.int) THEN Len(a.int) ELSE Len(b.int)
        f == IF Len(a.frac) > Len(b.frac) THEN Len(a.frac) ELSE Len(b.frac)
        x == Zeros(i - Len(a.int)) \o a.int \o a.frac \o Zeros(f - Len(a.frac))
        y == Zeros(i - Len(b.int)) \o b.int \o b.frac \o Zeros(f - Len(b.frac))
        sum == AddDigits(x, y, 0)
    IN  Num(SubSeq(sum, 1, i + 1), SubSeq(sum, i + 2, i + f + 1))

\* transactions.reduce((sum, t) => sum + t.debitAmount, 0), and the same for
\* creditAmount
RECURSIVE Reduce(_, _)
Reduce(transactions, side) ==
    IF transactions = <<>> THEN Zero
    ELSE LET n == Len(transactions)
             t == transactions[n]
         IN  Add(Reduce(SubSeq(transactions, 1, n - 1), side),
                 IF side = "debit" THEN t.debitAmount ELSE t.creditAmount)

Parsed(error, period, transactions) ==
    [error |-> error, startMonth |-> StartMonth(period),
     totalDebits |-> Reduce(transactions, "debit"),
     totalCredits |-> Reduce(transactions, "credit"),
     transactions |-> transactions]

\* parseBCAStatement of parse-bca-statement/index.ts
parseBCAStatement(file) ==
    LET t == file.tokens
        p1 == Pattern1(t, 1)
        p2 == IF p1 = <<>> THEN Pattern2(t, 1) ELSE p1
        p3 == IF p2 = <<>> THEN Pattern3(t, 1, StartMonth(file.period)) ELSE p2
    IN  Parsed("", file.period, p3)

\* The index of the first table header from token i on, Len + 1 without one
RECURSIVE NextHeader(_, _)
NextHeader(t, i) ==
    IF i > Len(t) \/ t[i].k = "header" THEN i ELSE NextHeader(t, i + 1)

\* parseInt(day) > 31 || parseInt(month) > 12 || ... < 1: the match is skipped
DateOk(tok) == tok.day \in 1..31 /\ tok.month \in 1..12

\* linePattern over lines[1]: the tokens i..last
RECURSIVE LinePattern(_, _, _)
LinePattern(t, i, last) ==
    IF i > last THEN <<>>
    ELSE LET m == LineMatch("part_005", SubSeq(t, 1, last), i)
         IN  IF ~m.ok THEN LinePattern(t, i + 1, last)
             ELSE (IF m.valid /\ DateOk(t[i]) THEN <<m.txn>> ELSE <<>>)
                  \o LinePattern(t, m.next, last)

\* parseBCAStatement of the other source (part_005): only the text between
\* the first table header and the next one is read.
parseBCAStatement_part_005(file) ==
    LET t == file.tokens
        h == NextHeader(t, 1)
    IN  IF h > Len(t)
        THEN Parsed("Could not find transaction table in PDF", file.period, <<>>)
        ELSE Parsed("", file.period,
                    LinePattern(t, h + 1, NextHeader(t, h + 1) - 1))

ParseOf(version, file) ==
    IF version = "index.ts" THEN parseBCAStatement(file)
    ELSE parseBCAStatement_part_005(file)

\* parsed before parseBCAStatement has run
NoParse == Parsed("not run", 0, <<>>)

\* One call of parseBCAStatement
ParseStatement ==
    /\ parsed = NoParse
    /\ parsed' = ParseOf(deployed, text)
    /\ UNCHANGED <<chart_of_accounts, petty_cash_transactions, staff_loans,
                   staff_loan_repayments, staff_members, journal_entries,
                   journal_entry_lines, migrated, pc, loc, nextId, ops, issued,
                   bank_statement_uploads, bank_statement_lines, storage,
                   response, deployed, text, str, number,
                   pdfData, extractedText, alert>>

\* ------------------------------------------------- bank statements: upload
\* The documents uploaded in the model
UploadFiles ==
    { [period |-> 1, tokens |-> <<TableHeader>> \o Line_12_01],
      [period |-> 0, tokens |-> Line_12_01],
      [period |-> 1, tokens |-> <<TableHeader, Word>>],
      [period |-> 1, tokens |-> <<TableHeader>> \o Line_12_01 \o Line_13_01] }

NoFile == [period |-> 0, tokens |-> <<>>]

\* new Response(..): status 0 before the first response
Response(status, error, file, uploadId) ==
    [status |-> status, error |-> error, file |-> file, uploadId |-> uploadId]

NoResponse == Response(0, "", NoFile, 0)

\* The check for an empty result left out
NoTransactionsUnchecked(result) == FALSE

\* !parsed.transactions || parsed.transactions.length === 0
NoTransactions(result) == result.transactions = <<>>

\* The handler up to the storage upload: the text is extracted and parsed.
\* An error thrown by the parser, or no transaction, is answered with 400
\* before anything is written.
UploadStatement(p, file) ==
    /\ pc[p] = "idle"
    /\ ops < MaxOps
    /\ ops' = ops + 1
    /\ LET result == ParseOf(deployed, file)
       IN  IF result.error # ""
           THEN /\ response' = [response EXCEPT ![p] =
                                   Response(400, result.error, file, 0)]
                /\ UNCHANGED <<pc, loc>>
           ELSE IF NoTransactions(result)
           THEN /\ response' = [response EXCEPT ![p] =
                                   Response(400, "No transactions found in PDF",
                                            file, 0)]
                /\ UNCHANGED <<pc, loc>>
           ELSE /\ pc' = [pc EXCEPT ![p] = "parsed"]
                /\ loc' = [loc EXCEPT ![p] =
                             [op |-> "upload", file |-> file,
                              parsed |-> result, upload |-> 0]]
                /\ UNCHANGED response
    /\ UNCHANGED <<chart_of_accounts, petty_cash_transactions, staff_loans,
                   staff_loan_repayments, staff_members, journal_entries,
                   journal_entry_lines, migrated, nextId, issued,
                   bank_statement_uploads, bank_statement_lines, storage,
                   deployed, text, parsed, str, number,
                   pdfData, extractedText, alert>>

\* The handler's catch block: the error is answered with 400, nothing that was
\* written is removed.
Throw(p, error) ==
    /\ response' = [response EXCEPT ![p] =
                       Response(400, error, loc[p].file, loc[p].upload)]
    /\ pc' = [pc EXCEPT ![p] = "idle"]
    /\ loc' = [loc EXCEPT ![p] = NoLoc]

\* supabase.storage.from('bank-statements').upload(fileName, file)
StorageUpload(p) ==
    /\ pc[p] = "parsed"
    /\ storage' = storage \cup {nextId}
    /\ nextId' = nextId + 1
    /\ pc' = [pc EXCEPT ![p] = "stored"]
    /\ UNCHANGED <<chart_of_accounts, petty_cash_transactions, staff_loans,
                   staff_loan_repayments, staff_members, journal_entries,
                   journal_entry_lines, migrated, loc, ops, issued,
                   bank_statement_uploads, bank_statement_lines, response,
                   deployed, text, parsed, str, number,
                   pdfData, extractedText, alert>>

\* uploadError
StorageError(p) ==
    /\ pc[p] = "parsed"
    /\ Throw(p, "Failed to upload PDF")
    /\ UNCHANGED <<chart_of_accounts, petty_cash_transactions, staff_loans,
                   staff_loan_repayments, staff_members, journal_entries,
                   journal_entry_lines, migrated, nextId, ops, issued,
                   bank_statement_uploads, bank_statement_lines, storage,
                   deployed, text, parsed, str, number,
                   pdfData, extractedText, alert>>

\* The row of bank_statement_uploads made from a parse.  file is history: the
\* document the row was made from.
UploadRow(id, file, result) ==
    [id |-> id,
     total_credits |-> result.totalCredits,
     total_debits |-> result.totalDebits,
     transaction_count |-> Len(result.transactions),
     status |-> "completed",
     file |-> file]

\* supabase.from('bank_statement_uploads').insert({.., status: 'completed'})
InsertUpload(p) ==
    /\ pc[p] = "stored"
    /\ bank_statement_uploads' = bank_statement_uploads \cup
          {UploadRow(nextId, loc[p].file, loc[p].parsed)}
    /\ loc' = [loc EXCEPT ![p].upload = nextId]
    /\ nextId' = nextId + 1
    /\ pc' = [pc EXCEPT ![p] = "upload"]
    /\ UNCHANGED <<chart_of_accounts, petty_cash_transactions, staff_loans,
                   staff_loan_repayments, staff_members, journal_entries,
                   journal_entry_lines, migrated, ops, issued,
                   bank_statement_lines, storage, response, deployed, text,
                   parsed, str, number,
                   pdfData, extractedText, alert>>

\* uploadInsertError
UploadInsertError(p) ==
    /\ pc[p] = "stored"
    /\ Throw(p, "Failed to create upload record")
    /\ UNCHANGED <<chart_of_accounts, petty_cash_transactions, staff_loans,
                   staff_loan_repayments, staff_members, journal_entries,
                   journal_entry_lines, migrated, nextId, ops, issued,
                   bank_statement_uploads, bank_statement_lines, storage,
                   deployed, text, parsed, str, number,
                   pdfData, extractedText, alert>>

\* parsed.transactions.map(..): n is the position of the transaction
StatementLines(upload_id, transactions) ==
    {[upload_id |-> upload_id,
      n |-> n,
      transaction_date |-> transactions[n].date,
      debit_amount |-> transactions[n].debitAmount,
      credit_amount |-> transactions[n].creditAmount,
      running_balance |-> transactions[n].balance,
      reconciliation_status |-> "unmatched"] : n \in DOMAIN transactions}

\* supabase.from('bank_statement_lines').insert(lines), and the response
InsertStatementLines(p) ==
    /\ pc[p] = "upload"
    /\ bank_statement_lines' = bank_statement_lines \cup
          StatementLines(loc[p].upload, loc[p].parsed.transactions)
    /\ response' = [response EXCEPT ![p] =
                       Response(200, "", loc[p].file, loc[p].upload)]
    /\ pc' = [pc EXCEPT ![p] = "idle"]
    /\ loc' = [loc EXCEPT ![p] = NoLoc]
    /\ UNCHANGED <<chart_of_accounts, petty_cash_transactions, staff_loans,
                   staff_loan_repayments, staff_members, journal_entries,
                   journal_entry_lines, migrated, nextId, ops, issued,
                   bank_statement_uploads, storage, deployed, text, parsed,
                   str, number,
                   pdfData, extractedText, alert>>

\* linesError: the upload row stays as it was written
StatementLinesError(p) ==
    /\ pc[p] = "upload"
    /\ Throw(p, "Failed to insert transactions")
    /\ UNCHANGED <<chart_of_accounts, petty_cash_transactions, staff_loans,
                   staff_loan_repayments, staff_members, journal_entries,
                   journal_entry_lines, migrated, nextId, ops, issued,
                   bank_statement_uploads, bank_statement_lines, storage,
                   deployed, text, parsed, str, number,
                   pdfData, extractedText, alert>>

\* ----------------------------------------- bank statements: text extraction
\* The decoded bytes of a PDF are a sequence of segments: a text object
\* BT (..) ET holding one string, a stream .. endstream, or other bytes.  The
\* content of a segment is the tokens its characters spell.
MaxSegments == 2

Segment(kind, tokens) == [kind |-> kind, tokens |-> tokens]

SegmentTexts == {<<Word>>, Line_13_01, <<Date_12_01, AmountTok(Amount_1_500_000_00)>>}

Segments == {Segment(k, t) : k \in {"BT", "stream", "other"}, t \in SegmentTexts}

RECURSIVE PdfFiles(_)
PdfFiles(n) ==
    IF n = 0 THEN {<<>>}
    ELSE LET shorter == PdfFiles(n - 1)
         IN  shorter \cup
             {Append(f, g) : f \in {x \in shorter : Len(x) = n - 1},
                             g \in Segments}

\* for (const match of rawText.matchAll(textObjectRegex)): the strings of the
\* text objects, each followed by a space
RECURSIVE TextObjects(_)
TextObjects(rawText) ==
    IF rawText = <<>> THEN <<>>
    ELSE (IF Head(rawText).kind = "BT" THEN Head(rawText).tokens ELSE <<>>)
         \o TextObjects(Tail(rawText))

\* for (const match of streamMatches): the runs of [A-Za-z0-9/\-.,\s]{3,} of
\* every stream; each token of the model is made of these characters
RECURSIVE Streams(_)
Streams(rawText) ==
    IF rawText = <<>> THEN <<>>
    ELSE (IF Head(rawText).kind = "stream" THEN Head(rawText).tokens ELSE <<>>)
         \o Streams(Tail(rawText))

\* A match of /[A-Za-z]{3,}[\w\s.,\-\/]+/ inside a run of tokens starts at
\* the first word of three letters or more and runs to the end of the run
RECURSIVE ReadableRun(_)
ReadableRun(tokens) ==
    IF tokens = <<>> THEN <<>>
    ELSE IF Head(tokens).k \in {"word", "header"} THEN tokens
    ELSE ReadableRun(Tail(tokens))

\* rawText.match(readablePattern) runs over the whole file, the text objects
\* and the streams included; the keywords stream and endstream are words of
\* the run of a stream, and the parentheses of a text object end a run
RECURSIVE Readable(_)
Readable(rawText) ==
    IF rawText = <<>> THEN <<>>
    ELSE (IF Head(rawText).kind = "stream"
          THEN <<Word>> \o Head(rawText).tokens \o <<Word>>
          ELSE ReadableRun(Head(rawText).tokens))
         \o Readable(Tail(rawText))

\* extractTextFromPDF of index.ts: the three scans run one after the other
\* and each appends to extractedText
extractTextFromPDF(rawText) ==
    TextObjects(rawText) \o Streams(rawText) \o Readable(rawText)

\* extractTextFromPDF of part_005: the scan of the text objects only
extractTextFromPDF_part_005(rawText) == TextObjects(rawText)

ExtractOf(version, rawText) ==
    IF version = "index.ts" THEN extractTextFromPDF(rawText)
    ELSE extractTextFromPDF_part_005(rawText)

Extracted(tokens) == [run |-> TRUE, tokens |-> tokens]

NoText == [run |-> FALSE, tokens |-> <<>>]

\* const text = await extractTextFromPDF(uint8Array)
ExtractText ==
    /\ extractedText = NoText
    /\ extractedText' = Extracted(ExtractOf(deployed, pdfData))
    /\ UNCHANGED <<chart_of_accounts, petty_cash_transactions, staff_loans,
                   staff_loan_repayments, staff_members, journal_entries,
                   journal_entry_lines, migrated, pc, loc, nextId, ops, issued,
                   bank_statement_uploads, bank_statement_lines, storage,
                   response, deployed, text, parsed, str, number, pdfData,
                   alert>>

\* ----------------------------------------------------------- specification
Charts == {SeededAccounts, SeededAccounts \cup {"1102"}}

\* Nothing uploaded, nothing parsed
StatementIdle ==
    /\ bank_statement_uploads = {}
    /\ bank_statement_lines = {}
    /\ storage = {}
    /\ response = [p \in Procs |-> NoResponse]
    /\ deployed \in Versions
    /\ text = NoFile
    /\ parsed = NoParse
    /\ str = <<>>
    /\ number = NoNumber
    /\ pdfData = <<>>
    /\ extractedText = NoText

Init ==
    /\ StatementIdle
    /\ chart_of_accounts \in Charts
    /\ petty_cash_transactions = {}
    /\ staff_loans = {}
    /\ staff_loan_repayments = {}
    /\ staff_members = {}
    /\ journal_entries = {}
    /\ journal_entry_lines = {}
    /\ migrated = FALSE
    /\ pc = [p \in Procs |-> "idle"]
    /\ loc = [p \in Procs |-> NoLoc]
    /\ nextId = 1
    /\ ops = 0
    /\ issued = [d \in Dates |-> {}]
    /\ alert = [p \in Procs |-> NoAlert]

\* The state the staff-account migration leaves on an empty ledger
InitVoucher ==
    /\ StatementIdle
    /\ chart_of_accounts \in {MigratedChart(c) : c \in Charts}
    /\ petty_cash_transactions = {}
    /\ staff_loans = {}
    /\ staff_loan_repayments = {}
    /\ staff_members = {}
    /\ journal_entries = {}
    /\ journal_entry_lines = {}
    /\ migrated = TRUE
    /\ pc = [p \in Procs |-> "idle"]
    /\ loc = [p \in Procs |-> NoLoc]
    /\ nextId = 1
    /\ ops = 0
    /\ issued = [d \in Dates |-> {}]
    /\ alert = [p \in Procs |-> NoAlert]

NextPetty ==
    \/ \E p \in Procs, payload \in PettyPayloads :
          PettyInsert(p, payload) /\ UNCHANGED alert
    \/ \E p \in Procs : post_petty_cash_to_journal_fixed(p)
    \/ \E row \in petty_cash_transactions : PettyDelete(row)

\* The petty-cash box used through the form, next to the rows other writers
\* insert: fund transfers and expenses under a name of the trigger's CASE
NextPettyForm ==
    \/ \E p \in Procs, formData \in FormData,
          editingTransaction \in petty_cash_transactions \cup {NoTransaction} :
          handleSubmit(p, formData, editingTransaction)
    \/ \E p \in Procs, payload \in OtherPayloads :
          PettyInsert(p, payload) /\ UNCHANGED alert
    \/ \E p \in Procs : post_petty_cash_to_journal_fixed(p)
    \/ \E row \in petty_cash_transactions : PettyDelete(row)

NextLoans ==
    \/ \E p \in Procs, payload \in LoanPayloads : LoanInsert(p, payload)
    \/ \E p \in Procs : post_staff_loan_to_journal(p)
    \/ \E p \in Procs, loan \in staff_loans, payload \in RepaymentPayloads :
          RepaymentInsert(p, loan, payload)
    \/ \E p \in Procs : post_loan_repayment_to_journal(p)
    \/ \E loan \in staff_loans : DeleteStaffLoan(loan)
    \/ RevertStaffLoans

NextVoucher ==
    \/ \E p \in Procs, name \in StaffNames : create_staff_account(p, name)
    \/ \E p \in Procs : SelectNextCode(p)
    \/ \E p \in Procs : InsertStaffAccount(p)
    \/ \E p \in Procs, s \in staff_members, t \in TransactionData :
          handleGiveAdvance(p, s, t)
    \/ \E p \in Procs, s \in staff_members, t \in TransactionData :
          handleRecordRepayment(p, s, t)
    \/ \E p \in Procs : InsertHeader(p)
    \/ \E p \in Procs : InsertLines(p)
    \/ \E p \in Procs : HeaderError(p)
    \/ \E p \in Procs : LinesError(p)
    \/ \E p \in Procs : Resubmit(p)
    \/ \E p \in Procs : CloseForm(p)

\* The petty-cash box used by one client at a time
NextPettySerial ==
    \/ \E payload \in PettyPayloads :
          /\ \A p \in Procs : pc[p] = "idle"
          /\ PettyInsert(CHOOSE p \in Procs : TRUE, payload)
          /\ UNCHANGED alert
    \/ \E p \in Procs : post_petty_cash_to_journal_fixed(p)
    \/ \E row \in petty_cash_transactions : PettyDelete(row)

\* The empty ledger the statement functions run beside
LedgerEmpty ==
    /\ chart_of_accounts = SeededAccounts \cup {"1102"}
    /\ petty_cash_transactions = {}
    /\ staff_loans = {}
    /\ staff_loan_repayments = {}
    /\ staff_members = {}
    /\ journal_entries = {}
    /\ journal_entry_lines = {}
    /\ migrated = TRUE
    /\ pc = [p \in Procs |-> "idle"]
    /\ loc = [p \in Procs |-> NoLoc]
    /\ nextId = 1
    /\ ops = 0
    /\ issued = [d \in Dates |-> {}]
    /\ alert = [p \in Procs |-> NoAlert]

InitUpload == LedgerEmpty /\ StatementIdle

\* parseBCAStatement about to be called on any text
InitParse ==
    /\ LedgerEmpty
    /\ bank_statement_uploads = {}
    /\ bank_statement_lines = {}
    /\ storage = {}
    /\ response = [p \in Procs |-> NoResponse]
    /\ deployed \in Versions
    /\ text \in Texts
    /\ parsed = NoParse
    /\ str = <<>>
    /\ number = NoNumber
    /\ pdfData = <<>>
    /\ extractedText = NoText

\* parseAmount about to be called on any token
InitAmount ==
    /\ LedgerEmpty
    /\ bank_statement_uploads = {}
    /\ bank_statement_lines = {}
    /\ storage = {}
    /\ response = [p \in Procs |-> NoResponse]
    /\ deployed \in Versions
    /\ text = NoFile
    /\ parsed = NoParse
    /\ str \in AmountTokens
    /\ number = NoNumber
    /\ pdfData = <<>>
    /\ extractedText = NoText

\* extractTextFromPDF about to be called on any file
InitExtract ==
    /\ LedgerEmpty
    /\ bank_statement_uploads = {}
    /\ bank_statement_lines = {}
    /\ storage = {}
    /\ response = [p \in Procs |-> NoResponse]
    /\ deployed \in Versions
    /\ text = NoFile
    /\ parsed = NoParse
    /\ str = <<>>
    /\ number = NoNumber
    /\ pdfData \in PdfFiles(MaxSegments)
    /\ extractedText = NoText

NextUpload ==
    \/ \E p \in Procs, file \in UploadFiles : UploadStatement(p, file)
    \/ \E p \in Procs : StorageUpload(p)
    \/ \E p \in Procs : StorageError(p)
    \/ \E p \in Procs : InsertUpload(p)
    \/ \E p \in Procs : UploadInsertError(p)
    \/ \E p \in Procs : InsertStatementLines(p)
    \/ \E p \in Procs : StatementLinesError(p)

Next ==
    \/ NextPetty
    \/ NextPettyForm
    \/ NextLoans
    \/ NextVoucher
    \/ NextUpload
    \/ ParseStatement
    \/ ParseAmount

\* The whole ledger
Spec == Init /\ [][Next]_vars

\* The petty-cash box alone
SpecPetty == Init /\ [][NextPetty]_vars

\* The petty-cash box without concurrent inserts
SpecPettySerial == Init /\ [][NextPettySerial]_vars

\* The petty-cash form: inserts, edits and deletes
SpecPettyForm == Init /\ [][NextPettyForm]_vars

\* The staff loans of the first design, up to their migration
SpecLoans == Init /\ [][NextLoans]_vars

\* The staff accounts and vouchers of the second design
SpecVoucher == InitVoucher /\ [][NextVoucher]_vars

\* The bank-statement upload function
SpecUpload == InitUpload /\ [][NextUpload]_vars

\* parseBCAStatement on its own
SpecParse == InitParse /\ [][ParseStatement]_vars

\* parseAmount on its own
SpecAmount == InitAmount /\ [][ParseAmount]_vars

\* One call of extractTextFromPDF on any file
SpecExtract == InitExtract /\ [][ExtractText]_vars

\* ------------------------------------------------------------------ claims
\* C1: every journal entry marked posted has the sum of its lines' debits
\* equal to the sum of its lines' credits.
PostedEntriesBalanced ==
    \A e \in journal_entries :
        e.is_posted =>
            SumOver(LinesOf(e.id), "debit") = SumOver(LinesOf(e.id), "credit")

\* The journal entries posted for a petty-cash row
EntriesOfPetty(r) ==
    {e \in journal_entries :
        e.source_module = "petty_cash" /\ e.reference_id = r.id}

\* C2: a petty-cash withdrawal whose bank leg resolves to no account (no bank
\* account reference, or a bank account without a ledger account) has no
\* journal entry.
UnresolvedLegNotPosted ==
    \A r \in petty_cash_transactions :
        ( /\ r.fund_transfer_id = NULL
          /\ r.transaction_type = "withdraw"
          /\ \/ r.bank_account_id = NULL
             \/ BankCoaId(r.bank_account_id) = NULL )
        => EntriesOfPetty(r) = {}

\* C3: once the insert has finished, a petty-cash row that is not a fund
\* transfer and its journal entry both exist or neither exists.
SourceAndEntryTogether ==
    /\ \A r \in petty_cash_transactions :
          r.fund_transfer_id = NULL => EntriesOfPetty(r) # {}
    /\ \A e \in journal_entries :
          e.source_module = "petty_cash" =>
              \E r \in petty_cash_transactions : r.id = e.reference_id

\* C4: no two journal entries of the same document kind and the same entry
\* date carry the same entry number.
EntryNumbersUnique ==
    \A e1, e2 \in journal_entries :
        ( /\ e1.id # e2.id
          /\ e1.source_module = e2.source_module
          /\ e1.entry_date = e2.entry_date )
        => e1.entry_number # e2.entry_number

\* C5: two cash expenses being inserted at the same time for the same date
\* hold two distinct, consecutive entry numbers.
ConcurrentExpensesSequential ==
    \A p, q \in Procs :
        ( /\ p # q
          /\ pc[p] = "petty_posting" /\ pc[q] = "petty_posting"
          /\ loc[p].new.transaction_type = "expense"
          /\ loc[q].new.transaction_type = "expense"
          /\ loc[p].new.transaction_date = loc[q].new.transaction_date )
        => \/ loc[p].je_number = loc[q].je_number + 1
           \/ loc[q].je_number = loc[p].je_number + 1

\* C6: every entry number written for a date is greater than every number
\* written for that date before, whether or not its row still exists.
NumbersNeverReissued ==
    [][ \A e \in journal_entries' \ journal_entries :
            \A n \in issued[e.entry_date] : e.entry_number > n ]_vars

\* The source event of an entry: the row it references, or, for a voucher,
\* the form session that submitted it.
SourceEvent(e) == <<e.source_module, e.reference_id, e.session>>

\* C7: there is at most one journal entry per source event.
AtMostOneEntryPerSourceEvent ==
    \A e1, e2 \in journal_entries :
        SourceEvent(e1) = SourceEvent(e2) => e1.id = e2.id

\* C8: a step that deletes a staff loan, a loan repayment or a petty-cash row
\* removes the journal entry of that source event with its lines, and no
\* other entry.
DeleteRemovesItsEntry ==
    [][ LET goneLoans == {l.id : l \in staff_loans}
                           \ {l.id : l \in staff_loans'}
            gonePetty == {r.id : r \in petty_cash_transactions}
                           \ {r.id : r \in petty_cash_transactions'}
            goneRepayments == {r.id : r \in staff_loan_repayments}
                                \ {r.id : r \in staff_loan_repayments'}
            OfGone(e) ==
                \/ e.source_module = "staff_loan" /\ e.reference_id \in goneLoans
                \/ e.source_module = "petty_cash" /\ e.reference_id \in gonePetty
                \/ /\ e.source_module = "loan_repayment"
                   /\ e.reference_id \in goneRepayments
        IN  (goneLoans \cup gonePetty \cup goneRepayments) # {} =>
              /\ \A e \in journal_entries : OfGone(e) => e \notin journal_entries'
              /\ \A e \in journal_entries \ journal_entries' : OfGone(e)
              /\ \A l \in journal_entry_lines' :
                    \E e \in journal_entries' : e.id = l.journal_entry_id
      ]_vars

\* C9: every journal entry header has both of its lines.
EntryHasAllLines ==
    \A e \in journal_entries :
        {l.line_number : l \in LinesOf(e.id)} = {1, 2}

\* C10: a client that reads the journal while another client's posting is in
\* progress does not read a header that is without its lines.
NoPartialEntryObserved ==
    \A p, q \in Procs :
        ( /\ pc[p] = "numbered"
          /\ pc[q] = "header"
          /\ loc[p].read_id = loc[q].journalEntry )
        => loc[p].read_lines = Cardinality(VoucherLines(loc[q]))

\* The document yields no transaction line
ZeroLines(file) == Len(ParseOf(deployed, file).transactions) = 0

\* C11: a document from which no transaction line is recovered is answered
\* with an error, and no upload row and no line row is made from it.
ZeroLinesRejected ==
    /\ \A u \in bank_statement_uploads : ~ZeroLines(u.file)
    /\ \A l \in bank_statement_lines :
          \E u \in bank_statement_uploads : u.id = l.upload_id
    /\ \A p \in Procs :
          (response[p].status # 0 /\ ZeroLines(response[p].file))
          => (response[p].status = 400 /\ response[p].uploadId = 0)

\* C11 witness: an upload without transaction lines has been rejected
ZeroLinesRejectedWitness ==
    \E p \in Procs :
        /\ response[p].status = 400
        /\ response[p].error = "No transactions found in PDF"
        /\ ZeroLines(response[p].file)
        /\ bank_statement_uploads = {}

LinesOfUpload(id) == {l \in bank_statement_lines : l.upload_id = id}

\* C12: every upload row with status completed has as many lines as its
\* transaction count, each unmatched.
CompletedUploadHasLines ==
    \A u \in bank_statement_uploads :
        u.status = "completed" =>
            /\ Cardinality(LinesOfUpload(u.id)) = u.transaction_count
            /\ \A l \in LinesOfUpload(u.id) :
                  l.reconciliation_status = "unmatched"

\* The value the ordered disambiguation policy gives a token
NormalizePolicy(s) ==
    LET periods == Count(s, ".")
        commas == Count(s, ",")
        DropPeriods(x) == SelectSeq(x, LAMBDA c : c # ".")
        DropCommas(x) == SelectSeq(x, LAMBDA c : c # ",")
        CommaIsDecimal(x) ==
            [i \in DOMAIN x |-> IF x[i] = "," THEN "." ELSE x[i]]
    IN  IF periods > 1 THEN parseFloat(CommaIsDecimal(DropPeriods(s)))
        ELSE IF commas > 1 THEN parseFloat(DropCommas(s))
        ELSE IF periods = 1 /\ commas = 1
             THEN parseFloat(CommaIsDecimal(DropPeriods(s)))
        ELSE IF commas = 1 /\ periods = 0 THEN parseFloat(CommaIsDecimal(s))
        ELSE parseFloat(s)

Value_1234567_89 ==
    [int |-> <<"1", "2", "3", "4", "5", "6", "7">>, frac |-> <<"8", "9">>]

Value_1234567 ==
    [int |-> <<"1", "2", "3", "4", "5", "6", "7">>, frac |-> <<>>]

\* C13: parseAmount returns the value of the ordered disambiguation policy
\* for every token of digits, periods and commas, and 1234567.89, 1234567.89
\* and 1234567 for 1.234.567,89, 1,234,567.89 and 1234567.
AmountFollowsPolicy ==
    number # NoNumber =>
        /\ number = NormalizePolicy(str)
        /\ str = <<"1", ".", "2", "3", "4", ".", "5", "6", "7", ",", "8", "9">>
              => number = Value_1234567_89
        /\ str = <<"1", ",", "2", "3", "4", ",", "5", "6", "7", ".", "8", "9">>
              => number = Value_1234567_89
        /\ str = <<"1", "2", "3", "4", "5", "6", "7">>
              => number = Value_1234567

\* C13 witness: 1.234.567,89 has been parsed
AmountFollowsPolicyWitness ==
    /\ str = <<"1", ".", "2", "3", "4", ".", "5", "6", "7", ",", "8", "9">>
    /\ number = Value_1234567_89

\* A document that is the example line, with or without the table header,
\* of a statement of January or of no named period
ExampleFile(file) ==
    /\ file.tokens \in {Line_12_01, <<TableHeader>> \o Line_12_01}
    /\ file.period \in {0, 1}

\* The line of the example: the 12th of the statement's month, credit
\* 1500000.00, no debit, balance 5000000.00, unmatched
ExampleLine(upload_id, file) ==
    [upload_id |-> upload_id,
     n |-> 1,
     transaction_date |-> [month |-> StartMonth(file.period), day |-> 12],
     debit_amount |-> [int |-> <<>>, frac |-> <<>>],
     credit_amount |-> [int |-> <<"1", "5", "0", "0", "0", "0", "0">>,
                        frac |-> <<>>],
     running_balance |-> [int |-> <<"5", "0", "0", "0", "0", "0", "0">>,
                          frac |-> <<>>],
     reconciliation_status |-> "unmatched"]

RECURSIVE NextDate(_, _)
NextDate(t, i) ==
    IF i > Len(t) \/ t[i].k = "date" THEN i ELSE NextDate(t, i + 1)

\* The span of the line read at date token i: the tokens up to the next date
Span(t, i) == SubSeq(t, i + 1, NextDate(t, i + 1) - 1)

\* The policy on the span of a line: the first amount is the transaction
\* amount, a second amount is the running balance, CR after the amount makes
\* a credit, DB or nothing a debit.
LineFollowsPolicy(t, x) ==
    LET span == Span(t, x.at)
        amounts == SelectSeq(span, LAMBDA tok : tok.k = "amount")
        first == CHOOSE j \in DOMAIN span :
                    span[j].k = "amount"
                    /\ \A k \in 1..(j - 1) : span[k].k # "amount"
        isCredit == first + 1 <= Len(span) /\ span[first + 1] = CR
        amount == ParseAmountOf(deployed, amounts[1].chars)
    IN  /\ amounts # <<>>
        /\ x.creditAmount = (IF isCredit THEN amount ELSE Zero)
        /\ x.debitAmount = (IF isCredit THEN Zero ELSE amount)
        /\ x.balance = (IF Len(amounts) >= 2
                        THEN ParseAmountOf(deployed, amounts[2].chars)
                        ELSE NullNumber)

\* Every dated line of the text prints an amount
EveryLineHasAmount(t) ==
    \A i \in DOMAIN t :
        t[i].k = "date" => \E j \in DOMAIN Span(t, i) : Span(t, i)[j].k = "amount"

\* C15: for every parsed line read at a date of a text whose dated lines all
\* print an amount, the first amount of the line's span is the transaction
\* amount, a second amount is the running balance, and the indicator decides
\* between credit and debit.
LinesFollowPolicy ==
    (parsed # NoParse /\ EveryLineHasAmount(text.tokens)) =>
        \A n \in DOMAIN parsed.transactions :
            parsed.transactions[n].at > 0
            => LineFollowsPolicy(text.tokens, parsed.transactions[n])

\* The date ranges a report is asked for
StartDates == {NoDate} \cup Dates

\* The signed net balance of a trial-balance row: positive for a debit
\* balance, negative for a credit balance
SignedNet(row) ==
    IF row.normal_balance = "debit" THEN row.balance ELSE 0 - row.balance

RECURSIVE SumSignedNet(_)
SumSignedNet(rows) ==
    IF rows = {} THEN 0
    ELSE LET r == CHOOSE x \in rows : TRUE
         IN  SignedNet(r) + SumSignedNet(rows \ {r})

\* C16: for every date range, the signed net balances of the rows of the
\* trial balance sum to zero.
TrialBalanceSumsToZero ==
    \A s \in StartDates, e \in Dates :
        SumSignedNet(get_trial_balance(s, e)) = 0

\* The lines of an account whose entry is dated inside the range
LinesInside(code, s, e) ==
    {l \in journal_entry_lines :
        /\ l.account_id = code
        /\ \E h \in journal_entries :
              /\ h.id = l.journal_entry_id
              /\ (s = NoDate \/ h.entry_date >= s)
              /\ h.entry_date <= e}

\* C17: the trial balance sums only the lines of entries dated inside the
\* range, and lists exactly the accounts with a non-zero movement inside it.
TrialBalanceInsideRange ==
    \A s \in StartDates, e \in Dates :
        /\ \A row \in get_trial_balance(s, e) :
              /\ row.total_debit = SumOver(LinesInside(row.code, s, e), "debit")
              /\ row.total_credit = SumOver(LinesInside(row.code, s, e), "credit")
        /\ {row.code : row \in get_trial_balance(s, e)}
              = {c \in chart_of_accounts :
                    \/ SumOver(LinesInside(c, s, e), "debit") # 0
                    \/ SumOver(LinesInside(c, s, e), "credit") # 0}

RECURSIVE SumNet(_)
SumNet(S) ==
    IF S = {} THEN 0
    ELSE LET l == CHOOSE x \in S : TRUE
         IN  (l.debit - l.credit) + SumNet(S \ {l})

\* The entry of l1 sorts strictly before the entry line l2
SortsBefore(l1, l2) ==
    LET e1 == CHOOSE e \in journal_entries : e.id = l1.journal_entry_id
        e2 == CHOOSE e \in journal_entries : e.id = l2.journal_entry_id
    IN  \/ e1.entry_date < e2.entry_date
        \/ e1.entry_date = e2.entry_date /\ e1.entry_number < e2.entry_number
        \/ /\ e1.entry_date = e2.entry_date
           /\ e1.entry_number = e2.entry_number
           /\ l1.line_number < l2.line_number

\* The lines of pool up to and including row i of a ledger: those that sort
\* before the row, and those listed at or before it
UpToRow(pool, ledger, i) ==
    {l \in pool :
        \/ SortsBefore(l, ledger[i].line)
        \/ \E k \in 1..i : ledger[k].line = l}

\* The rows of a ledger are in the order (entryDate, entryNumber, lineNumber)
LedgerOrdered(ledger) ==
    \A i, j \in DOMAIN ledger :
        i < j => ~SortsBefore(ledger[j].line, ledger[i].line)

\* C18: a staff ledger is ordered by (entryDate, entryNumber,
\* lineNumber) and each row's balance is the sum of debit minus credit over
\* all the lines of the account up to and including the row.
LedgerBalanceOverAllLines ==
    \A name \in StaffNames, s \in StartDates, e \in Dates :
        \A ledger \in get_staff_ledger_from_journal(name, s, e) :
            /\ LedgerOrdered(ledger)
            /\ \A i \in DOMAIN ledger :
                  ledger[i].balance =
                      SumNet(UpToRow({l \in journal_entry_lines :
                                         l.account_id = ledger[i].line.account_id},
                                     ledger, i))

\* C19: the calls for one staff member, whatever the letter case of the name,
\* leave at most one staff row and one staff account in the chart.
OneAccountPerStaffMember ==
    /\ \A m1, m2 \in staff_members :
          LOWER(m1.staff_name) = LOWER(m2.staff_name) => m1 = m2
    /\ Cardinality({c \in chart_of_accounts : IsStaffCode(c)}) <= 1

\* C20: every journal line has exactly one of debit and credit strictly
\* positive and the other zero.
LinesOneSided ==
    \A l \in journal_entry_lines :
        \/ l.debit > 0 /\ l.credit = 0
        \/ l.credit > 0 /\ l.debit = 0

LinesStartAtDates ==
    parsed # NoParse =>
        \A n \in DOMAIN parsed.transactions :
            LET at == parsed.transactions[n].at
            IN  /\ at \in DOMAIN text.tokens
                /\ text.tokens[at].k = "date"
                /\ text.tokens[at].day \in 1..31
                /\ text.tokens[at].month \in 1..12

\* The chart after n staff accounts have been created one after the other
ChartWithStaff(n) == {"1160"} \cup {StaffCodes[i] : i \in 1..n}

\* C26: the code computed for a new staff account is a code of the staff
\* range that no row of the chart holds, for any number of staff accounts
\* already there, and the insert of a call never finds its code taken.
StaffCodeNeverCollides ==
    /\ \A n \in 0..Len(StaffCodes) :
          /\ IsStaffCode(v_next_code(ChartWithStaff(n)))
          /\ v_next_code(ChartWithStaff(n)) \notin ChartWithStaff(n)
    /\ \A p \in Procs :
          pc[p] = "coded" => loc[p].v_next_code \notin chart_of_accounts

\* The repayments of a loan
RepaymentsOf(loan) == {r \in staff_loan_repayments : r.loan_id = loan.id}

RECURSIVE SumAmounts(_)
SumAmounts(rows) ==
    IF rows = {} THEN 0
    ELSE LET r == CHOOSE x \in rows : TRUE
         IN  r.amount + SumAmounts(rows \ {r})

FirstStrategy(rawText) ==
    IF TextObjects(rawText) # <<>> THEN TextObjects(rawText)
    ELSE IF Streams(rawText) # <<>> THEN Streams(rawText)
    ELSE Readable(rawText)

\* C23: the text extracted from a file is the yield of exactly one strategy,
\* the first in the fixed order that yields text; a later strategy adds
\* nothing to what an earlier one has found.
TextFromOneStrategy ==
    extractedText.run => extractedText.tokens = FirstStrategy(pdfData)

\* The cost-linked categories: those whose cost is allocated to an import
\* container
CostLinked(category) == category \in {"duty_customs"}

PettyEntryFollowsTransaction ==
    "1102" \in chart_of_accounts =>
        \A row \in petty_cash_transactions :
            row.fund_transfer_id = NULL =>
                /\ Cardinality(EntriesOfPetty(row)) = 1
                /\ \A e \in EntriesOfPetty(row) :
                      /\ e.entry_date = row.transaction_date
                      /\ LinesOf(e.id) =
                            PettyLines(chart_of_accounts, row, e.id).lines

\* C28: an expense under a value of the form's category list other than
\* 'other' is matched by a branch of the trigger's CASE and is debited to an
\* account of its own, never to the fallback account 5102.
FormCategoryHasOwnAccount ==
    \A row \in petty_cash_transactions :
        (/\ row.transaction_type = "expense"
         /\ row.expense_category \in expenseCategories \ {"other"})
        => \A e \in EntriesOfPetty(row) :
              \A l \in LinesOf(e.id) : l.debit > 0 => l.account_id # "5102"

\* The account of its own a category has, NULL when it has none
OwnAccount(category) ==
    IF category = "Office Supplies" THEN "6310" ELSE NULL

ExpectedDebit(chart, category) ==
    IF OwnAccount(category) \in chart THEN OwnAccount(category) ELSE "5102"

\* C21: the step that posts a cash expense writes one new journal entry for
\* the transaction, dated as the transaction and numbered with the number
\* generated in this insert, and exactly two lines under it: line 1 debits the
\* amount to the account of the category when the category has one in the
\* chart (Office Supplies: 6310) and to the fallback account 5102 otherwise,
\* line 2 credits the amount to petty cash 1102.
ExpensePostsTwoLines ==
    [][\A p \in Procs :
          (/\ pc[p] = "petty_posting"
           /\ pc'[p] = "idle"
           /\ loc[p].new.transaction_type = "expense")
          => LET new == loc[p].new
                 headers == journal_entries' \ journal_entries
                 lines == journal_entry_lines' \ journal_entry_lines
             IN  /\ Cardinality(headers) = 1
                 /\ \A h \in headers :
                       /\ h.id \notin {e.id : e \in journal_entries}
                       /\ h.source_module = "petty_cash"
                       /\ h.reference_id = new.id
                       /\ h.entry_date = new.transaction_date
                       /\ h.entry_number = loc[p].je_number
                       /\ lines =
                            {Line(h.id, 1,
                                  ExpectedDebit(chart_of_accounts,
                                                new.expense_category),
                                  new.amount, 0),
                             Line(h.id, 2, "1102", 0, new.amount)}]_vars

\* C21 witness: an Office Supplies expense of 150 has its one entry with the
\* lines Dr 6310 150 and Cr 1102 150, next to a form expense debited to 5102.
ExpensePostsTwoLinesWitness ==
    /\ \E row \in petty_cash_transactions, e \in journal_entries :
          /\ row.expense_category = "Office Supplies"
          /\ row.amount = 150
          /\ EntriesOfPetty(row) = {e}
          /\ LinesOf(e.id) = {Line(e.id, 1, "6310", 150, 0),
                              Line(e.id, 2, "1102", 0, 150)}
    /\ \E row \in petty_cash_transactions, e \in journal_entries :
          /\ row.expense_category = "utilities"
          /\ EntriesOfPetty(row) = {e}
          /\ LinesOf(e.id) = {Line(e.id, 1, "5102", 150, 0),
                              Line(e.id, 2, "1102", 0, 150)}

\* The sum of the amounts of one side, from the last transaction to the first
RECURSIVE SumOfSide(_, _)
SumOfSide(transactions, side) ==
    IF transactions = <<>> THEN Zero
    ELSE Add(IF side = "debit" THEN Head(transactions).debitAmount
             ELSE Head(transactions).creditAmount,
             SumOfSide(Tail(transactions), side))

\* C30: every transaction of a parse has a positive amount on exactly one of
\* debitAmount and creditAmount and zero on the other, totalDebits and
\* totalCredits are the sums of the two fields over the transactions, and the
\* upload row made from the parse counts as many transactions as the parse
\* returned.
TransactionsOneSidedAndTotalled ==
    parsed # NoParse =>
        /\ \A n \in DOMAIN parsed.transactions :
              LET t == parsed.transactions[n]
              IN  \/ ValidAmount(t.debitAmount) /\ t.creditAmount = Zero
                  \/ ValidAmount(t.creditAmount) /\ t.debitAmount = Zero
        /\ parsed.totalDebits = SumOfSide(parsed.transactions, "debit")
        /\ parsed.totalCredits = SumOfSide(parsed.transactions, "credit")
        /\ UploadRow(1, text, parsed).transaction_count
              = Len(parsed.transactions)
        /\ UploadRow(1, text, parsed).total_debits = parsed.totalDebits
        /\ UploadRow(1, text, parsed).total_credits = parsed.totalCredits

\* C30 witness: a parse with a debit and a credit whose totals are the two
\* amounts, and a parse with two debits whose total is their sum.
TransactionsTotalledWitness ==
    /\ parsed # NoParse
    /\ Len(parsed.transactions) = 2
    /\ parsed.transactions[1].debitAmount # Zero
    /\ parsed.transactions[2].debitAmount # Zero
    /\ parsed.totalDebits \notin {Zero, parsed.transactions[1].debitAmount,
                                  parsed.transactions[2].debitAmount}
    /\ parsed.totalCredits = Zero

====
